---- MODULE Spec2Model ----
(***************************************************************************)
(* Model of the asynchronous barcode pipeline of mb_album:                 *)
(*   queue_manager.py      QueueManager        (table barcode_queue)       *)
(*   rate_limiter.py       AdaptiveRateLimiter (adaptive delay)            *)
(*   async_musicbrainz.py  RateLimitedMusicBrainz (client, outcomes)       *)
(*   background_worker.py  BackgroundWorker    (worker loop, pipeline)     *)
(*   shared_data.py        SharedDataManager   (mailbox file, snapshots)   *)
(*   app.py                scan / retry routes (producers)                 *)
(*                                                                         *)
(* Delays are held in hundredths of a second (1.1 s = 110, 60.0 s = 6000); *)
(* a product with a factor is rounded down to a whole hundredth.           *)
(***************************************************************************)
EXTENDS Integers, Sequences, FiniteSets, TLC

\* ---------------------------------------------------------------- bounds
NumBarcodes == 2      \* distinct identifiers that can be scanned
MaxTime == 1          \* CURRENT_TIMESTAMP takes the values 0..MaxTime
MaxMailbox == 1       \* lines of pending_barcodes.txt not yet read by a drain
MaxRequests == 3      \* cap of processing_stats.total_requests in Spec
MaxSignals == 9       \* cap of processing_stats.total_requests in SpecRL
MaxIncrements == 3    \* cap of retry_count in SpecQ
MaxThreads == 3       \* threads that start() can create in SpecW
MaxClock == 9500      \* time.time() stays within max_delay..MaxClock in SpecT
MaxWireClock == 6600  \* time.time() stays within max_delay..MaxWireClock in SpecC
MaxBoots == 2         \* starts of the process in SpecP
MaxWorkers == 2       \* BackgroundWorker objects that get_worker() can create in SpecW

Barcodes == 1..NumBarcodes

\* ------------------------------------------------------ program constants
max_retries == 3                 \* BackgroundWorker.max_retries
heartbeat_interval == 200        \* _send_heartbeat: every 2.0 s at most
heartbeat_timeout == 1000        \* get_worker_stats: healthy below 10 s
min_delay == 110                 \* AdaptiveRateLimiter.min_delay = 1.1
max_delay == 6000                \* AdaptiveRateLimiter.max_delay = 60.0
max_consecutive_failures == 5    \* AdaptiveRateLimiter.max_consecutive_failures
retry_delay == 500               \* BackgroundWorker.retry_delay = 5.0
worker_sleep == 100              \* BackgroundWorker.worker_sleep = 1.0
cache_update_interval == 500     \* BackgroundWorker.cache_update_interval = 5.0
coverart_timeout == 3000         \* requests.get(url, timeout=30) in download_cover_art

NULL == "NULL"
NoMbid == 0
NoPosition == 0

Max(a, b) == IF a >= b THEN a ELSE b
Min(a, b) == IF a <= b THEN a ELSE b

VARIABLES
    barcode_queue,      \* table barcode_queue: sequence of rows, in rowid order
    now,                \* CURRENT_TIMESTAMP (one-second resolution)
    pending_file,       \* shared_data/pending_barcodes.txt, one barcode per line
    catalog,            \* catalog.csv: the barcodes (canonical) of its records
    no_coverart,        \* no_coverart.csv: the barcodes of its records, in file order
    coverart_files,     \* coverart/<barcode>.jpg files that exist with size > 0
    tracks_cache,       \* keys of barcode_tracks.json
    catalog_cache_file, \* shared_data/catalog_cache.json (snapshot of catalog)
    queue_status_file,  \* shared_data/queue_status.json: the barcodes it holds
    limiter,            \* AdaptiveRateLimiter fields and the processing_stats row
    pc,                 \* position of the worker thread in _worker_loop
    item,               \* the worker's local dict `item`
    pending_barcodes,   \* the worker's local list `unique_barcodes` (rest of it)
    last_cache_update,  \* BackgroundWorker.last_cache_update: 0, or once set 1
                        \* (the time of the flush in SpecT)
    add_result,         \* the last add_barcode call of the worker and its outcome
    run,                \* outcomes of the steps of the current processing run
    runs503,            \* per barcode: processing runs in a row ended by a 503
    last503,            \* the metadata 503 that was the limiter's latest signal
    read_lines,         \* lines of the mailbox the drain in progress has read
    clock,              \* time.time(), in hundredths of a second
    boots,              \* how many times the process has been started
    retried,            \* barcodes the retry route was called for while failed
    picks,              \* per barcode: pending -> processing transitions since the
                        \* row was inserted or last reset by the operator
    last_heartbeat,     \* worker_stats_heartbeat.json: time of the last heartbeat (0: none)
    snapshot_io,        \* queue_status.json under a write: open for writing or not, the
                        \* documents before and after, and a reader's last lookup
    worker,             \* BackgroundWorker.is_running, stop_event and its threads
    wire,               \* the client's position, the limiter's last_request_time
                        \* and the outbound requests made so far
    no_coverart_cache_file, \* shared_data/no_coverart_cache.json (snapshot of the ledger)
    scan_metadata       \* shared_data/scan_metadata.json: pending_catalog_rebuild

vars == <<barcode_queue, now, pending_file, catalog, no_coverart, coverart_files,
          tracks_cache, catalog_cache_file, queue_status_file, limiter, pc, item,
          pending_barcodes, last_cache_update, add_result, run, runs503, last503,
          read_lines, clock, boots, worker, wire, retried, last_heartbeat, snapshot_io, picks, no_coverart_cache_file, scan_metadata>>

storeVars == <<barcode_queue, now>>
fileVars == <<catalog, no_coverart, coverart_files, tracks_cache>>
snapshotVars == <<catalog_cache_file, queue_status_file, no_coverart_cache_file>>
workerVars == <<pc, item, pending_barcodes, last_cache_update, add_result, run>>
ghostVars == <<runs503, last503>>
runtimeVars == <<read_lines, clock, boots, worker, wire, retried, last_heartbeat, snapshot_io, scan_metadata>>
auxVars == <<runtimeVars, picks>>

\* ------------------------------------------------------------ QueueManager
HasBarcode(t, b) == \E i \in DOMAIN t : t[i].barcode = b
RowOf(t, b) == t[CHOOSE i \in DOMAIN t : t[i].barcode = b]

\* INSERT INTO barcode_queue (barcode) VALUES (?) with the column defaults
NewRow(t, b, ts) ==
    [id |-> Len(t) + 1, barcode |-> b, status |-> "pending", created_at |-> ts,
     retry_count |-> 0, error_message |-> NULL,
     metadata_complete |-> FALSE, coverart_complete |-> FALSE,
     tracks_complete |-> FALSE, mbid |-> NoMbid]

\* SELECT COUNT(*) ... WHERE status = 'pending' AND created_at <= (created_at of b)
PendingUpTo(t, b) ==
    Cardinality({i \in DOMAIN t : /\ t[i].status = "pending"
                                  /\ t[i].created_at <= RowOf(t, b).created_at})

get_queue_position(t, b) ==
    IF PendingUpTo(t, b) > 0 THEN PendingUpTo(t, b) ELSE NoPosition

\* add_barcode: the INSERT succeeds when no row holds the barcode (UNIQUE);
\* otherwise IntegrityError is handled while self.lock is still held, and for
\* a pending row the handler calls get_queue_position, which acquires
\* self.lock (a non-reentrant threading.Lock) again and never returns.
add_barcode(t, b, ts) ==
    IF ~HasBarcode(t, b)
    THEN LET t1 == Append(t, NewRow(t, b, ts))
         IN  [table |-> t1, returned |-> TRUE, success |-> TRUE,
              status |-> "pending",
              position |-> IF PendingUpTo(t1, b) > 0 THEN PendingUpTo(t1, b) ELSE 1]
    ELSE IF RowOf(t, b).status = "pending"
         THEN [table |-> t, returned |-> FALSE, success |-> FALSE,
               status |-> "none", position |-> NoPosition]
         ELSE [table |-> t, returned |-> TRUE, success |-> FALSE,
               status |-> RowOf(t, b).status, position |-> NoPosition]

\* get_next_pending that also returns failed rows
get_next_pending_any(t) ==
    {i \in DOMAIN t :
        /\ t[i].status \in {"pending", "failed"}
        /\ \A j \in DOMAIN t :
              t[j].status \in {"pending", "failed"} => t[i].created_at <= t[j].created_at}

\* get_next_pending with ORDER BY created_at DESC
get_next_pending_newest(t) ==
    {i \in DOMAIN t :
        /\ t[i].status = "pending"
        /\ \A j \in DOMAIN t :
              t[j].status = "pending" => t[i].created_at >= t[j].created_at}

\* get_next_pending: ... WHERE status = 'pending' ORDER BY created_at ASC LIMIT 1.
\* The order among rows of equal created_at is not specified by the query:
\* the operator gives the set of rows the query may return (empty: None).
get_next_pending(t) ==
    {i \in DOMAIN t :
        /\ t[i].status = "pending"
        /\ \A j \in DOMAIN t :
              t[j].status = "pending" => t[i].created_at <= t[j].created_at}

\* update_status that starts the retry budget anew when a row becomes pending
update_status_zeroing(t, b, st, err) ==
    [i \in DOMAIN t |->
        IF t[i].barcode = b
        THEN [t[i] EXCEPT !.status = st, !.error_message = err,
                          !.retry_count = IF st = "pending" THEN 0 ELSE @]
        ELSE t[i]]

update_status(t, b, st, err) ==
    [i \in DOMAIN t |->
        IF t[i].barcode = b
        THEN [t[i] EXCEPT !.status = st, !.error_message = err]
        ELSE t[i]]

\* mark_processing_step_complete that stores the metadata without its flag
mark_processing_step_complete_nometa(t, b, step, m) ==
    [i \in DOMAIN t |->
        IF t[i].barcode # b THEN t[i]
        ELSE LET r == IF m # NoMbid THEN [t[i] EXCEPT !.mbid = m] ELSE t[i]
             IN  CASE step = "metadata" -> r
                   [] step = "coverart" -> [r EXCEPT !.coverart_complete = TRUE]
                   [] step = "tracks"   -> [r EXCEPT !.tracks_complete = TRUE]]

\* mark_processing_step_complete that has no column for the cover-art step
mark_processing_step_complete_nocover(t, b, step, m) ==
    [i \in DOMAIN t |->
        IF t[i].barcode # b THEN t[i]
        ELSE LET r == IF m # NoMbid THEN [t[i] EXCEPT !.mbid = m] ELSE t[i]
             IN  CASE step = "metadata" -> [r EXCEPT !.metadata_complete = TRUE]
                   [] step = "coverart" -> r
                   [] step = "tracks"   -> [r EXCEPT !.tracks_complete = TRUE]]

\* mark_processing_step_complete; `m` is the metadata dict (here its mbid),
\* NoMbid when no dict is passed
mark_processing_step_complete(t, b, step, m) ==
    [i \in DOMAIN t |->
        IF t[i].barcode # b THEN t[i]
        ELSE LET r == IF m # NoMbid THEN [t[i] EXCEPT !.mbid = m] ELSE t[i]
             IN  CASE step = "metadata" -> [r EXCEPT !.metadata_complete = TRUE]
                   [] step = "coverart" -> [r EXCEPT !.coverart_complete = TRUE]
                   [] step = "tracks"   -> [r EXCEPT !.tracks_complete = TRUE]]

increment_retry_count(t, b) ==
    [i \in DOMAIN t |->
        IF t[i].barcode = b
        THEN [t[i] EXCEPT !.retry_count = t[i].retry_count + 1]
        ELSE t[i]]

\* reset_failed_barcode that also clears the step flags
reset_failed_barcode_clean(t, b) ==
    [i \in DOMAIN t |->
        IF t[i].barcode = b /\ t[i].status = "failed"
        THEN [t[i] EXCEPT !.status = "pending", !.error_message = NULL,
                          !.retry_count = 0, !.metadata_complete = FALSE,
                          !.coverart_complete = FALSE, !.tracks_complete = FALSE]
        ELSE t[i]]

\* a reset that leaves the stored error message in place
reset_failed_barcode_keeping(t, b) ==
    [i \in DOMAIN t |->
        IF t[i].barcode = b /\ t[i].status = "failed"
        THEN [t[i] EXCEPT !.status = "pending", !.retry_count = 0]
        ELSE t[i]]

reset_failed_barcode(t, b) ==
    [i \in DOMAIN t |->
        IF t[i].barcode = b /\ t[i].status = "failed"
        THEN [t[i] EXCEPT !.status = "pending", !.error_message = NULL,
                          !.retry_count = 0]
        ELSE t[i]]

\* a reload that does not carry the cover-art flag
get_barcode_status_nocover(t, b) == [RowOf(t, b) EXCEPT !.coverart_complete = FALSE]

\* get_barcode_status as used by the pipeline: the row as a dict
get_barcode_status(t, b) == RowOf(t, b)

\* ----------------------------------------------------- AdaptiveRateLimiter
\* backoff multiplier truncated to a whole number
TimesBackoff_flat(d) == d * 1

TimesBackoff(d) == (d * 15) \div 10      \* current_delay * backoff_multiplier (1.5)
TimesRecovery(d) == (d * 95) \div 100    \* current_delay * recovery_factor (0.95)
TimesTwo(d) == d * 2                     \* current_delay * 2.0

\* _update_stats; CURRENT_TIMESTAMP is the ordinal of the request
update_stats(rl, success, is_503) ==
    IF success
    THEN [rl EXCEPT !.total_requests = rl.total_requests + 1]
    ELSE IF is_503
         THEN [rl EXCEPT !.total_requests = rl.total_requests + 1,
                         !.failed_requests = rl.failed_requests + 1,
                         !.last_503_time = rl.total_requests + 1]
         ELSE [rl EXCEPT !.total_requests = rl.total_requests + 1,
                         !.failed_requests = rl.failed_requests + 1]

save_state(rl) == [rl EXCEPT !.current_backoff_seconds = rl.current_delay]

\* a newly constructed limiter that starts from min_delay
load_state_fresh(rl) ==
    [rl EXCEPT !.current_delay = min_delay, !.consecutive_failures = 0]

\* _load_state of a newly constructed limiter over the persisted row
load_state(rl) ==
    [rl EXCEPT !.current_delay = Max(rl.current_backoff_seconds, min_delay),
               !.consecutive_failures = 0]

on_request_success(rl) ==
    LET d == IF rl.current_delay > min_delay
             THEN Max(TimesRecovery(rl.current_delay), min_delay)
             ELSE rl.current_delay
    IN  save_state(update_stats(
            [rl EXCEPT !.consecutive_failures = 0, !.current_delay = d],
            TRUE, FALSE))

\* on_503_error whose extended backoff is not capped
on_503_error_uncapped(rl) ==
    LET n  == rl.consecutive_failures + 1
        d1 == Min(TimesBackoff(rl.current_delay), max_delay)
        d2 == IF n >= max_consecutive_failures THEN TimesTwo(d1) ELSE d1
    IN  save_state(update_stats(
            [rl EXCEPT !.consecutive_failures = n, !.current_delay = d2],
            FALSE, TRUE))

on_503_error(rl) ==
    LET n  == rl.consecutive_failures + 1
        d1 == Min(TimesBackoff(rl.current_delay), max_delay)
        d2 == IF n >= max_consecutive_failures
              THEN Min(TimesTwo(d1), max_delay)
              ELSE d1
    IN  save_state(update_stats(
            [rl EXCEPT !.consecutive_failures = n, !.current_delay = d2],
            FALSE, TRUE))

\* on_other_error that records the failure as a 503 in the statistics
on_other_error_stamped(rl) == update_stats(rl, FALSE, TRUE)

on_other_error(rl) == update_stats(rl, FALSE, FALSE)

reset_backoff(rl) ==
    save_state([rl EXCEPT !.current_delay = min_delay,
                          !.consecutive_failures = 0])

\* -------------------------------------------------- RateLimitedMusicBrainz
\* The limiter after a client call (lookup_by_barcode, get_track_names), by
\* the call's outcome: a result, a WebServiceError with code 503 (raised on
\* as ServiceUnavailableError), any other exception (raised on as
\* MusicBrainzError).
client_result(rl) == on_request_success(rl)
\* a 503 taken for any other error
client_503_as_error(rl) == on_other_error(rl)

client_503(rl) == on_503_error(rl)
client_error(rl) == on_other_error(rl)

\* ------------------------------------------------------- BackgroundWorker
RECURSIVE Unique(_, _)
\* "Remove duplicates from pending list while preserving order"
Unique(s, seen) ==
    IF s = <<>> THEN <<>>
    ELSE IF Head(s) \in seen THEN Unique(Tail(s), seen)
         ELSE <<Head(s)>> \o Unique(Tail(s), seen \cup {Head(s)})

\* write_release_to_csv with existing_barcodes: deduplicates by the record's
\* barcode; a record without artist or album goes to incomplete.csv instead
write_release_to_csv(cat, c, has_artist_album) ==
    IF c \in cat THEN cat
    ELSE IF has_artist_album THEN cat \cup {c} ELSE cat

\* _get_canonical_barcode_from_catalog(mbid) or barcode; a release and its
\* MBID are identified with the release's own barcode
canonical_barcode(cat, mbid, b) == IF mbid \in cat THEN mbid ELSE b

\* _append_to_no_coverart_csv: the Barcode column of the file as it is read
existing_barcodes(ledger) == {ledger[i] : i \in DOMAIN ledger}

\* _append_to_no_coverart_csv: skips a barcode already in the file
append_to_no_coverart_csv(ledger, b) ==
    IF b \in existing_barcodes(ledger) THEN ledger ELSE Append(ledger, b)

\* app.py remove_from_no_coverart_csv: rewrites the file without the barcode
remove_from_no_coverart_csv(ledger, b) == SelectSeq(ledger, LAMBDA x : x # b)

\* a cover-art step that records every item it handles
ledger_after_step_always(ledger, b, coverart_failed) ==
    append_to_no_coverart_csv(ledger, b)

\* "If cover art failed, append to no_coverart.csv"
ledger_after_step(ledger, b, coverart_failed) ==
    IF coverart_failed THEN append_to_no_coverart_csv(ledger, b) ELSE ledger

\* no match treated as the end of a successful run
metadata_not_found_complete(t, b) == update_status(t, b, "complete", NULL)

\* no match treated as a retryable outcome
metadata_not_found_retry(t, b) == update_status(t, b, "pending", NULL)

\* "if result is None": the item fails for good
metadata_not_found(t, b) ==
    update_status(t, b, "failed", "No album found for barcode")

\* the handler comparing the count before the increment
handle_ServiceUnavailableError_late(t, it) ==
    LET t1 == increment_retry_count(t, it.barcode)
    IN  IF it.retry_count >= max_retries
        THEN update_status(t1, it.barcode, "failed", "Max retries exceeded")
        ELSE update_status(t1, it.barcode, "pending", NULL)

\* a ServiceUnavailableError handler without a budget: always back to pending
handle_ServiceUnavailableError_unbounded(t, it) ==
    update_status(increment_retry_count(t, it.barcode), it.barcode, "pending", NULL)

\* except ServiceUnavailableError
handle_ServiceUnavailableError(t, it) ==
    LET t1 == increment_retry_count(t, it.barcode)
    IN  IF it.retry_count + 1 >= max_retries
        THEN update_status(t1, it.barcode, "failed", "Max retries exceeded")
        ELSE update_status(t1, it.barcode, "pending", NULL)

\* a MusicBrainzError handler that keeps its own budget: never fails the item
handle_MusicBrainzError_pending(t, it) ==
    update_status(increment_retry_count(t, it.barcode), it.barcode, "pending", NULL)

\* except MusicBrainzError
handle_MusicBrainzError(t, it) ==
    LET t1 == increment_retry_count(t, it.barcode)
    IN  IF it.retry_count + 1 >= max_retries
        THEN update_status(t1, it.barcode, "failed", "MusicBrainz API error")
        ELSE update_status(t1, it.barcode, "pending", NULL)

\* a generic handler that spends a retry and returns the item to pending
handle_Exception_retry(t, it) ==
    update_status(increment_retry_count(t, it.barcode), it.barcode, "pending", NULL)

\* except Exception
handle_Exception(t, it) ==
    update_status(t, it.barcode, "failed", "Unexpected error")

NoItem == [barcode |-> 0]
\* no write of queue_status.json is under way and no reader has looked it up
NoSnapshotIO == [writing |-> FALSE, previous |-> {}, new |-> {},
                 read |-> [barcode |-> 0, found |-> FALSE, in_previous |-> FALSE,
                           in_new |-> FALSE]]
NoRun == [barcode |-> 0, retry_count |-> 0, meta |-> "none", cover |-> "none",
          tracks |-> "none"]
NoAdd == [barcode |-> 0, existed |-> FALSE, returned |-> TRUE, success |-> FALSE,
          status |-> "none", position |-> NoPosition,
          before |-> NoItem, after |-> NoItem]
No503 == [barcode |-> 0, delay |-> 0]

\* background_worker module at import: _worker_instance is None (0), no
\* BackgroundWorker object and no thread exist; objects and threads are
\* numbered in the order they are created
NoWorker == [instance |-> 0, objs |-> <<>>, loops |-> <<>>]

\* BackgroundWorker.__init__
NewWorker == [is_running |-> FALSE, stop_event |-> FALSE, worker_thread |-> 0]

\* BackgroundWorker.start on object o: returns when is_running, else sets
\* is_running, clears stop_event and starts a new thread on _worker_loop
start(w, o) ==
    IF w.objs[o].is_running THEN w
    ELSE [w EXCEPT !.objs[o] = [is_running |-> TRUE, stop_event |-> FALSE,
                                worker_thread |-> Len(w.loops) + 1],
                   !.loops = Append(@, [obj |-> o, pos |-> "top"])]

\* BackgroundWorker.stop on object o: returns when not is_running, else clears
\* is_running, sets stop_event and joins worker_thread for at most 10 s. A
\* thread between two iterations ends within the join; a thread inside an
\* iteration ends within it (joined) or is still inside when the join times out.
stop(w, o, joined) ==
    IF ~w.objs[o].is_running THEN w
    ELSE LET t == w.objs[o].worker_thread
         IN  [w EXCEPT !.objs[o].is_running = FALSE,
                       !.objs[o].stop_event = TRUE,
                       !.loops[t].pos =
                           IF @ = "top" \/ (@ = "body" /\ joined) THEN "exited" ELSE @]

\* The client is in no operation, the limiter's last_request_time is 0, and no
\* outbound request has been made yet. own_wait and gap_ok record, over the
\* requests made so far, that each came after a wait_if_needed of its own and
\* at least current_delay after the request before it.
NoWire == [pos |-> "idle", last_request_time |-> 0, sent |-> FALSE, last_at |-> 0,
           own_wait |-> TRUE, gap_ok |-> TRUE]

\* an outbound request leaves at time t; waited: the caller's wait_if_needed
\* came immediately before it; delay: the limiter's current_delay at time t
send_request(w, t, waited, delay) ==
    [w EXCEPT !.sent = TRUE, !.last_at = t,
              !.own_wait = @ /\ waited,
              !.gap_ok = @ /\ (~w.sent \/ t - w.last_at >= delay)]

\* AdaptiveRateLimiter.wait_if_needed at time t: the time at which it returns
wait_if_needed(rl, last_request_time, t) ==
    IF t - last_request_time < rl.current_delay
    THEN t + (rl.current_delay - (t - last_request_time))
    ELSE t

\* ---------------------------------------------------------------- initial
Init ==
    /\ barcode_queue = <<>>
    /\ now = 0
    /\ pending_file = <<>>
    /\ catalog = {}
    /\ no_coverart = <<>>
    /\ coverart_files = {}
    /\ tracks_cache = {}
    /\ catalog_cache_file = {}
    /\ queue_status_file = {}
    /\ limiter = [current_delay |-> min_delay, consecutive_failures |-> 0,
                  current_backoff_seconds |-> min_delay,
                  total_requests |-> 0, failed_requests |-> 0,
                  last_503_time |-> 0]     \* 0: no 503 yet (NULL)
    /\ pc = "loop"
    /\ item = NoItem
    /\ pending_barcodes = <<>>
    /\ last_cache_update = 0
    /\ add_result = NoAdd
    /\ run = NoRun
    /\ runs503 = [b \in Barcodes |-> 0]
    /\ last503 = No503
    /\ read_lines = 0
    /\ clock = max_delay     \* time.time() is far beyond any delay
    /\ boots = 1
    /\ retried = {}
    /\ last_heartbeat = 0
    /\ snapshot_io = NoSnapshotIO
    /\ picks = [b \in Barcodes |-> 0]
    /\ worker = NoWorker
    /\ wire = NoWire
    /\ no_coverart_cache_file = <<>>
    /\ scan_metadata = FALSE

\* --------------------------------------------------------------- producers
\* app.py scan_barcode: answers from the snapshots, else appends to the mailbox
ScanBarcode(b) ==
    /\ Len(pending_file) - read_lines < MaxMailbox
    /\ b \notin catalog_cache_file
    /\ b \notin queue_status_file
    /\ pending_file' = Append(pending_file, b)
    /\ scan_metadata' = TRUE                   \* record_scan_activity
    /\ UNCHANGED <<read_lines, clock, boots, worker, wire, retried, last_heartbeat, snapshot_io, picks, storeVars, fileVars, snapshotVars, limiter, workerVars, ghostVars>>

\* app.py retry_barcode: appends to the mailbox unconditionally
RetryBarcode(b) ==
    /\ Len(pending_file) - read_lines < MaxMailbox
    /\ pending_file' = Append(pending_file, b)
    /\ scan_metadata' = TRUE                   \* record_scan_activity
    /\ UNCHANGED <<read_lines, clock, boots, worker, wire, retried, last_heartbeat, snapshot_io, picks, storeVars, fileVars, snapshotVars, limiter, workerVars, ghostVars>>

\* the operator's reset of a failed barcode (QueueManager.reset_failed_barcode);
\* the call takes self.lock, which a blocked add_barcode never releases
ResetFailed(b) ==
    /\ pc # "deadlock"
    /\ HasBarcode(barcode_queue, b)
    /\ barcode_queue' = reset_failed_barcode(barcode_queue, b)
    /\ runs503' = IF RowOf(barcode_queue, b).status = "failed"
                  THEN [runs503 EXCEPT ![b] = 0] ELSE runs503
    /\ picks' = IF RowOf(barcode_queue, b).status = "failed"
                THEN [picks EXCEPT ![b] = 0] ELSE picks
    /\ UNCHANGED <<runtimeVars, now, pending_file, fileVars, snapshotVars, limiter, workerVars,
                   last503>>

\* app.py album_detail -> get_tracks: for a record of the catalog snapshot whose
\* barcode is not a key of barcode_tracks.json, the fetched list (empty on an
\* error) is stored under the barcode
AlbumDetail(c) ==
    /\ c \in catalog_cache_file
    /\ c \notin tracks_cache
    /\ tracks_cache' = tracks_cache \cup {c}
    /\ UNCHANGED <<auxVars, storeVars, pending_file, catalog, no_coverart, coverart_files,
                   snapshotVars, limiter, workerVars, ghostVars>>

\* app.py api_refresh_catalog: when should_rebuild_catalog (a rebuild is pending
\* and the grace period since the last scan has passed), force_refresh_catalog
\* deletes the catalog snapshot and mark_catalog_rebuilt clears the flag
RefreshCatalog ==
    /\ scan_metadata
    /\ catalog_cache_file' = {}
    /\ scan_metadata' = FALSE
    /\ UNCHANGED <<read_lines, clock, boots, worker, wire, retried, last_heartbeat, snapshot_io, picks, storeVars, pending_file, fileVars,
                   queue_status_file, no_coverart_cache_file, limiter, workerVars,
                   ghostVars>>

\* app.py retry_coverart for a record of the catalog snapshot, the download
\* returning True (the file exists or is fetched now): the barcode is removed
\* from no_coverart.csv and the ledger snapshot is rewritten from the file (a
\* download returning False changes nothing)
RetryCoverart(c) ==
    /\ c \in catalog_cache_file
    /\ coverart_files' = coverart_files \cup {c}
    /\ no_coverart' = remove_from_no_coverart_csv(no_coverart, c)
    /\ no_coverart_cache_file' = no_coverart'
    /\ UNCHANGED <<auxVars, storeVars, pending_file, catalog, tracks_cache,
                   catalog_cache_file, queue_status_file, limiter, workerVars,
                   ghostVars>>

\* the clock of CURRENT_TIMESTAMP advances
Tick ==
    /\ now < MaxTime
    /\ now' = now + 1
    /\ UNCHANGED <<auxVars, barcode_queue, pending_file, fileVars, snapshotVars, limiter,
                   workerVars, ghostVars>>

\* ------------------------------------------------------------- worker loop
\* top of an iteration: _send_heartbeat, then _process_pending_barcodes reads
\* the mailbox and removes duplicates
DrainRead ==
    /\ pc = "loop"
    /\ pending_barcodes' = Unique(pending_file, {})
    /\ pc' = IF pending_file = <<>> THEN "dequeue" ELSE "drain"
    /\ add_result' = NoAdd
    /\ read_lines' = Len(pending_file)
    /\ UNCHANGED <<clock, boots, worker, wire, retried, last_heartbeat, snapshot_io, picks, scan_metadata, storeVars, pending_file, fileVars, snapshotVars, limiter, item,
                   last_cache_update, run, ghostVars>>

\* one turn of `for barcode in unique_barcodes`
DrainOne ==
    /\ pc = "drain"
    /\ pending_barcodes # <<>>
    /\ LET b == Head(pending_barcodes)
       IN  /\ pending_barcodes' = Tail(pending_barcodes)
           /\ IF b \in catalog_cache_file \/ b \in queue_status_file
              THEN UNCHANGED <<barcode_queue, add_result, pc>>
              ELSE LET r == add_barcode(barcode_queue, b, now)
                   IN  /\ barcode_queue' = r.table
                       /\ add_result' =
                            [barcode |-> b,
                             existed |-> HasBarcode(barcode_queue, b),
                             returned |-> r.returned, success |-> r.success,
                             status |-> r.status, position |-> r.position,
                             before |-> IF HasBarcode(barcode_queue, b)
                                        THEN RowOf(barcode_queue, b) ELSE NoItem,
                             after |-> RowOf(r.table, b)]
                       /\ pc' = IF r.returned THEN "drain" ELSE "deadlock"
    /\ UNCHANGED <<auxVars, now, pending_file, fileVars, snapshotVars, limiter, item, run,
                   last_cache_update, ghostVars>>

\* clear_pending_barcodes: os.remove of the mailbox file
DrainClear ==
    /\ pc = "drain"
    /\ pending_barcodes = <<>>
    /\ pending_file' = <<>>
    /\ pc' = "dequeue"
    /\ add_result' = NoAdd
    /\ read_lines' = 0
    /\ UNCHANGED <<clock, boots, worker, wire, retried, last_heartbeat, snapshot_io, picks, scan_metadata, storeVars, fileVars, snapshotVars, limiter, item,
                   pending_barcodes, last_cache_update, run, ghostVars>>

\* item = self.queue_manager.get_next_pending()
GetNextPending ==
    /\ pc = "dequeue"
    /\ \/ /\ get_next_pending(barcode_queue) = {}
          /\ pc' = "export"
          /\ UNCHANGED <<item, run>>
       \/ \E i \in get_next_pending(barcode_queue) :
             /\ item' = barcode_queue[i]
             /\ pc' = "begin"
             /\ run' = [NoRun EXCEPT !.barcode = barcode_queue[i].barcode,
                                     !.retry_count = barcode_queue[i].retry_count]
    /\ UNCHANGED <<auxVars, storeVars, pending_file, fileVars, snapshotVars, limiter,
                   pending_barcodes, last_cache_update, add_result, ghostVars>>

\* _process_barcode_item: "Mark as processing"
BeginProcessing ==
    /\ pc = "begin"
    /\ barcode_queue' = update_status(barcode_queue, item.barcode, "processing", NULL)
    /\ picks' = [picks EXCEPT ![item.barcode] = @ + 1]
    /\ pc' = "metadata"
    /\ UNCHANGED <<runtimeVars, now, pending_file, fileVars, snapshotVars, limiter, item,
                   pending_barcodes, last_cache_update, add_result, run, ghostVars>>

\* the run ends in the ServiceUnavailableError handler
Ends503(rl) ==
    /\ limiter' = client_503(rl)
    /\ barcode_queue' = handle_ServiceUnavailableError(barcode_queue, item)
    /\ runs503' = [runs503 EXCEPT ![item.barcode] = @ + 1]
    /\ pc' = "export"

\* the run ends in the MusicBrainzError handler
EndsApiError(rl) ==
    /\ limiter' = client_error(rl)
    /\ barcode_queue' = handle_MusicBrainzError(barcode_queue, item)
    /\ runs503' = [runs503 EXCEPT ![item.barcode] = 0]
    /\ pc' = "export"

\* Step 1: metadata
MetadataStep ==
    /\ pc = "metadata"
    /\ \/ /\ item.metadata_complete
          /\ run' = [run EXCEPT !.meta = "skipped"]
          /\ item' = get_barcode_status(barcode_queue, item.barcode)
          /\ pc' = "coverart"
          /\ UNCHANGED <<barcode_queue, catalog, limiter, ghostVars>>
       \/ /\ ~item.metadata_complete
          /\ limiter.total_requests < MaxRequests
          /\ \/ \E c \in Barcodes, full \in BOOLEAN :   \* search_releases found release c
                   /\ limiter' = client_result(limiter)
                   /\ catalog' = write_release_to_csv(catalog, c, full)
                   /\ barcode_queue' = mark_processing_step_complete(
                                           barcode_queue, item.barcode, "metadata", c)
                   /\ item' = get_barcode_status(barcode_queue', item.barcode)
                   /\ run' = [run EXCEPT !.meta = "found"]
                   /\ pc' = "coverart"
                   /\ last503' = No503
                   /\ UNCHANGED runs503
             \/ /\ limiter' = client_result(limiter)   \* found, the CSV write raises
                /\ barcode_queue' = handle_Exception(barcode_queue, item)
                /\ run' = [run EXCEPT !.meta = "write_error"]
                /\ runs503' = [runs503 EXCEPT ![item.barcode] = 0]
                /\ pc' = "export"
                /\ last503' = No503
                /\ UNCHANGED <<catalog, item>>
             \/ /\ limiter' = client_result(limiter)   \* empty release-list
                /\ barcode_queue' = metadata_not_found(barcode_queue, item.barcode)
                /\ run' = [run EXCEPT !.meta = "not_found"]
                /\ runs503' = [runs503 EXCEPT ![item.barcode] = 0]
                /\ pc' = "export"
                /\ last503' = No503
                /\ UNCHANGED <<catalog, item>>
             \/ /\ Ends503(limiter)                          \* WebServiceError 503
                /\ run' = [run EXCEPT !.meta = "unavailable"]
                /\ last503' = [barcode |-> item.barcode,
                               delay |-> limiter'.current_delay]
                /\ UNCHANGED <<catalog, item>>
             \/ /\ EndsApiError(limiter)                     \* any other error
                /\ run' = [run EXCEPT !.meta = "api_error"]
                /\ last503' = No503
                /\ UNCHANGED <<catalog, item>>
    /\ UNCHANGED <<auxVars, now, pending_file, no_coverart, coverart_files, tracks_cache,
                   snapshotVars, pending_barcodes, last_cache_update, add_result>>

\* Step 2: cover art (download_cover_art gives no signal to the limiter)
CoverartStep ==
    /\ pc = "coverart"
    /\ LET b == item.barcode
           c == canonical_barcode(catalog, item.mbid, b)
           done == mark_processing_step_complete(barcode_queue, b, "coverart", NoMbid)
       IN  /\ \/ /\ item.coverart_complete
                 /\ run' = [run EXCEPT !.cover = "skipped"]
                 /\ UNCHANGED <<barcode_queue, coverart_files, no_coverart>>
              \/ /\ ~item.coverart_complete        \* the file exists already
                 /\ item.mbid # NoMbid
                 /\ c \in coverart_files
                 /\ run' = [run EXCEPT !.cover = "cached"]
                 /\ barcode_queue' = done
                 /\ no_coverart' = ledger_after_step(no_coverart, b, FALSE)
                 /\ UNCHANGED coverart_files
              \/ /\ ~item.coverart_complete        \* download returns True
                 /\ item.mbid # NoMbid
                 /\ c \notin coverart_files
                 /\ run' = [run EXCEPT !.cover = "fetched"]
                 /\ coverart_files' = coverart_files \cup {c}
                 /\ barcode_queue' = done
                 /\ no_coverart' = ledger_after_step(no_coverart, b, FALSE)
              \/ /\ ~item.coverart_complete        \* download returns False, or no MBID
                 /\ item.mbid # NoMbid => c \notin coverart_files
                 /\ run' = [run EXCEPT !.cover = "unavailable"]
                 /\ barcode_queue' = done
                 /\ no_coverart' = ledger_after_step(no_coverart, b, TRUE)
                 /\ UNCHANGED coverart_files
              \/ /\ ~item.coverart_complete        \* an exception, caught in the step
                 /\ item.mbid # NoMbid
                 /\ run' = [run EXCEPT !.cover = "error"]
                 /\ barcode_queue' = done
                 /\ no_coverart' = ledger_after_step(no_coverart, b, TRUE)
                 /\ UNCHANGED coverart_files
           /\ item' = get_barcode_status(barcode_queue', b)
    /\ pc' = "tracks"
    /\ UNCHANGED <<auxVars, now, pending_file, catalog, tracks_cache, snapshotVars, limiter,
                   pending_barcodes, last_cache_update, add_result, ghostVars>>

\* the run completed without marking the tracks step
FinishRun_nomark(t, b) == update_status(t, b, "complete", NULL)

\* tracks step done: mark_processing_step_complete('tracks'), update_status('complete')
FinishRun(t, b) ==
    update_status(mark_processing_step_complete(t, b, "tracks", NoMbid),
                  b, "complete", NULL)

\* Step 3: track listing, then "Mark as complete"
TracksStep ==
    /\ pc = "tracks"
    /\ LET b == item.barcode
       IN  \/ /\ item.tracks_complete \/ item.mbid = NoMbid \/ b \in tracks_cache
              /\ run' = [run EXCEPT !.tracks = "skipped"]
              /\ barcode_queue' =
                    IF item.tracks_complete
                    THEN update_status(barcode_queue, b, "complete", NULL)
                    ELSE FinishRun(barcode_queue, b)
              /\ runs503' = [runs503 EXCEPT ![b] = 0]
              /\ pc' = "export"
              /\ UNCHANGED <<tracks_cache, limiter, last503>>
           \/ /\ ~item.tracks_complete /\ item.mbid # NoMbid /\ b \notin tracks_cache
              /\ limiter.total_requests < MaxRequests
              /\ \/ /\ limiter' = client_result(limiter)  \* a list of titles
                    /\ tracks_cache' = tracks_cache \cup {b}
                    /\ run' = [run EXCEPT !.tracks = "list"]
                    /\ barcode_queue' = FinishRun(barcode_queue, b)
                    /\ runs503' = [runs503 EXCEPT ![b] = 0]
                    /\ pc' = "export"
                 \/ /\ limiter' = client_result(limiter)  \* an empty list
                    /\ run' = [run EXCEPT !.tracks = "empty"]
                    /\ barcode_queue' = FinishRun(barcode_queue, b)
                    /\ runs503' = [runs503 EXCEPT ![b] = 0]
                    /\ pc' = "export"
                    /\ UNCHANGED tracks_cache
                 \/ /\ Ends503(limiter)                        \* WebServiceError 503
                    /\ run' = [run EXCEPT !.tracks = "unavailable"]
                    /\ UNCHANGED tracks_cache
                 \/ /\ EndsApiError(limiter)                   \* any other error
                    /\ run' = [run EXCEPT !.tracks = "api_error"]
                    /\ UNCHANGED tracks_cache
              /\ last503' = No503
    /\ item' = item
    /\ UNCHANGED <<auxVars, now, pending_file, catalog, no_coverart, coverart_files,
                   snapshotVars, pending_barcodes, last_cache_update, add_result>>

\* _update_shared_data_if_needed: flushes when cache_update_interval has elapsed
\* since last_cache_update, which is certain while last_cache_update is still 0
Export ==
    /\ pc = "export"
    /\ \/ /\ catalog_cache_file' = catalog
          /\ queue_status_file' = {b \in Barcodes : HasBarcode(barcode_queue, b)}
          /\ no_coverart_cache_file' = no_coverart
          /\ last_cache_update' = 1
       \/ /\ last_cache_update # 0
          /\ UNCHANGED <<snapshotVars, last_cache_update>>
    /\ pc' = "loop"
    /\ item' = NoItem
    /\ run' = NoRun
    /\ UNCHANGED <<auxVars, storeVars, pending_file, fileVars, limiter,
                   pending_barcodes, add_result, ghostVars>>

Next ==
    \/ \E b \in Barcodes : ScanBarcode(b)
    \/ \E b \in Barcodes : RetryBarcode(b)
    \/ \E b \in Barcodes : ResetFailed(b)
    \/ \E c \in Barcodes : AlbumDetail(c)
    \/ RefreshCatalog
    \/ \E c \in Barcodes : RetryCoverart(c)
    \/ Tick
    \/ DrainRead
    \/ DrainOne
    \/ DrainClear
    \/ GetNextPending
    \/ BeginProcessing
    \/ MetadataStep
    \/ CoverartStep
    \/ TracksStep
    \/ Export

Spec == Init /\ [][Next]_vars

\* ------------------------------------------- the limiter under any caller
\* Any caller may give any signal; a restart constructs a new limiter, which
\* loads the persisted row.
rlFrame == UNCHANGED <<auxVars, storeVars, pending_file, fileVars, snapshotVars, workerVars,
                       ghostVars>>

SignalSuccess ==
    /\ limiter.total_requests < MaxSignals
    /\ limiter' = on_request_success(limiter)
    /\ rlFrame

Signal503 ==
    /\ limiter.total_requests < MaxSignals
    /\ limiter' = on_503_error(limiter)
    /\ rlFrame

SignalOtherError ==
    /\ limiter.total_requests < MaxSignals
    /\ limiter' = on_other_error(limiter)
    /\ rlFrame

ResetBackoff ==
    /\ limiter' = reset_backoff(limiter)
    /\ rlFrame

Restart ==
    /\ limiter' = load_state(limiter)
    /\ rlFrame

NextRL ==
    \/ SignalSuccess
    \/ Signal503
    \/ SignalOtherError
    \/ ResetBackoff
    \/ Restart

SpecRL == Init /\ [][NextRL]_vars

\* --------------------------------------------- the store under any caller
\* Any caller may call any mutating method of QueueManager in any order.
Statuses == {"pending", "processing", "complete", "failed"}
Steps == {"metadata", "coverart", "tracks"}

qFrame == UNCHANGED <<auxVars, now, pending_file, fileVars, snapshotVars, limiter, item,
                      pending_barcodes, last_cache_update, add_result, run, ghostVars>>

QAddBarcode(b) ==
    /\ pc # "deadlock"
    /\ LET r == add_barcode(barcode_queue, b, now)
       IN  /\ barcode_queue' = r.table
           /\ pc' = IF r.returned THEN pc ELSE "deadlock"
    /\ qFrame

QUpdateStatus(b, st) ==
    /\ pc # "deadlock"
    /\ HasBarcode(barcode_queue, b)
    /\ barcode_queue' = update_status(barcode_queue, b, st,
                            IF st = "failed" THEN "Unexpected error" ELSE NULL)
    /\ UNCHANGED pc
    /\ qFrame

QMarkStep(b, step) ==
    /\ pc # "deadlock"
    /\ HasBarcode(barcode_queue, b)
    /\ barcode_queue' = mark_processing_step_complete(barcode_queue, b, step,
                            IF step = "metadata" THEN b ELSE NoMbid)
    /\ UNCHANGED pc
    /\ qFrame

QIncrementRetry(b) ==
    /\ pc # "deadlock"
    /\ HasBarcode(barcode_queue, b)
    /\ RowOf(barcode_queue, b).retry_count < MaxIncrements
    /\ barcode_queue' = increment_retry_count(barcode_queue, b)
    /\ UNCHANGED pc
    /\ qFrame

\* get_barcode_status returns unless the row is pending: for a pending row it
\* calls get_queue_position inside `with self._get_connection()`, which holds
\* self.lock, and get_queue_position acquires self.lock again
get_barcode_status_returns(t, b) ==
    ~(HasBarcode(t, b) /\ RowOf(t, b).status = "pending")

QGetBarcodeStatus(b) ==
    /\ pc # "deadlock"
    /\ pc' = IF get_barcode_status_returns(barcode_queue, b) THEN pc ELSE "deadlock"
    /\ UNCHANGED barcode_queue
    /\ qFrame

NextQ ==
    \/ \E b \in Barcodes : QAddBarcode(b)
    \/ \E b \in Barcodes : QGetBarcodeStatus(b)
    \/ \E b \in Barcodes, st \in Statuses : QUpdateStatus(b, st)
    \/ \E b \in Barcodes, step \in Steps : QMarkStep(b, step)
    \/ \E b \in Barcodes : QIncrementRetry(b)
    \/ \E b \in Barcodes : ResetFailed(b)

SpecQ == Init /\ [][NextQ]_vars

\* ================================================================ claims
RunPhases == {"begin", "metadata", "coverart", "tracks"}

\* C1. The store holds one row per barcode, and an insert of a barcode that is
\* already present returns, leaves the row as it was and reports the row's
\* status (with its position when the row is pending).
C1_IdempotentInsert ==
    /\ \A i, j \in DOMAIN barcode_queue :
          barcode_queue[i].barcode = barcode_queue[j].barcode => i = j
    /\ add_result.existed =>
          /\ add_result.returned
          /\ add_result.after = add_result.before
          /\ add_result.status = add_result.before.status
          /\ add_result.before.status = "pending" => add_result.position >= 1

\* C2. An item all of whose retryable failures are runs ended by a 503 is, after
\* the first and after the second such run, pending again (or processing, once
\* the worker has picked it again); after the third run in a row it is failed
\* with retry_count = 3 and is not the item of any later run.
C2_RetryExhaustion ==
    \A b \in Barcodes :
        HasBarcode(barcode_queue, b) =>
            LET r == RowOf(barcode_queue, b)
            IN  /\ runs503[b] <= 3
                /\ runs503[b] = 3 =>
                      /\ r.status = "failed"
                      /\ r.retry_count = 3
                      /\ ~(pc \in RunPhases /\ item.barcode = b)
                /\ (runs503[b] \in {1, 2} /\ r.retry_count = runs503[b]) =>
                      \/ r.status = "pending"
                      \/ /\ r.status = "processing"
                         /\ pc \in RunPhases
                         /\ item.barcode = b

C2_Witness == \E b \in Barcodes : runs503[b] = 3

\* C3. Every change of a row's status is pending->processing,
\* processing->complete, processing->pending, processing->failed or the
\* operator's failed->pending; a complete row keeps its status, and no step of
\* the worker changes status, retry_count or error_message of a failed row.
AllowedTransitions ==
    {<<"pending", "processing">>, <<"processing", "complete">>,
     <<"processing", "pending">>, <<"processing", "failed">>,
     <<"failed", "pending">>}

C3_StatusTransitions ==
    [][\A i \in DOMAIN barcode_queue :
          LET r == barcode_queue[i]
              q == barcode_queue'[i]
          IN  /\ q.barcode = r.barcode
              /\ q.status # r.status => <<r.status, q.status>> \in AllowedTransitions
              /\ r.status = "complete" => q.status = "complete"
              /\ (/\ r.status = "failed"
                  /\ \/ q.status # r.status
                     \/ q.retry_count # r.retry_count
                     \/ q.error_message # r.error_message)
                 => /\ UNCHANGED workerVars
                    /\ q.status = "pending"
                    /\ q.retry_count = 0
                    /\ q.error_message = NULL]_vars

C3_Witness ==
    /\ \E i \in DOMAIN barcode_queue : barcode_queue[i].status = "failed"
    /\ \E i \in DOMAIN barcode_queue : barcode_queue[i].status = "complete"

\* C4. Under any order of calls of the store's mutating methods, a step flag
\* that is true stays true.
C4_MonotonicFlags ==
    [][\A i \in DOMAIN barcode_queue :
          LET r == barcode_queue[i]
              q == barcode_queue'[i]
          IN  /\ r.metadata_complete => q.metadata_complete
              /\ r.coverart_complete => q.coverart_complete
              /\ r.tracks_complete => q.tracks_complete]_vars

C4_Witness ==
    \E i \in DOMAIN barcode_queue :
        /\ barcode_queue[i].metadata_complete
        /\ barcode_queue[i].coverart_complete
        /\ barcode_queue[i].tracks_complete
        /\ barcode_queue[i].status = "pending"
        /\ barcode_queue[i].retry_count = 0
        /\ \E j \in DOMAIN barcode_queue : barcode_queue[j].status = "failed"

\* C5. get_next_pending returns None exactly when no row is pending, and
\* otherwise a pending row with no pending row created earlier; created_at of
\* a row never changes, so a retried row is ordered by its first created_at.
PendingRows(t) == {i \in DOMAIN t : t[i].status = "pending"}

C5_FifoOrder ==
    [][/\ \A i \in DOMAIN barcode_queue :
             barcode_queue'[i].created_at = barcode_queue[i].created_at
       /\ (pc = "dequeue" /\ pc' = "export") => PendingRows(barcode_queue) = {}
       /\ (pc = "dequeue" /\ pc' = "begin") =>
             /\ PendingRows(barcode_queue) # {}
             /\ \E i \in PendingRows(barcode_queue) : barcode_queue[i] = item'
             /\ \A j \in PendingRows(barcode_queue) :
                   ~(barcode_queue[j].created_at < item'.created_at)
       /\ (pc = "dequeue" /\ PendingRows(barcode_queue) = {}) => pc' # "begin"
       /\ (pc = "dequeue" /\ PendingRows(barcode_queue) # {}) => pc' # "export"]_vars

C5_Witness ==
    /\ pc = "begin"
    /\ item.retry_count > 0
    /\ \E j \in PendingRows(barcode_queue) :
          barcode_queue[j].created_at > item.created_at

\* C6. Under any order of success, 503 and other-error signals, reset_backoff
\* calls and restarts that load the persisted row,
\* min_delay <= current_delay <= max_delay.
C6_DelayBounds ==
    /\ min_delay <= limiter.current_delay
    /\ limiter.current_delay <= max_delay

C6_Witness ==
    /\ limiter.current_delay = max_delay
    /\ limiter.consecutive_failures = 0
    /\ limiter.failed_requests > 0

\* C7. An on_503_error call made while current_delay < max_delay leaves
\* current_delay strictly greater; made at max_delay it leaves it at max_delay.
C7_BackoffMonotonic ==
    [][limiter'.consecutive_failures = limiter.consecutive_failures + 1 =>
          /\ limiter.current_delay < max_delay =>
                limiter'.current_delay > limiter.current_delay
          /\ limiter.current_delay = max_delay =>
                limiter'.current_delay = max_delay]_vars

C7_Witness ==
    /\ limiter.current_delay = max_delay
    /\ limiter.consecutive_failures = 8

\* C8. A run whose metadata search finds a release, whose cover-art download
\* is unavailable and whose track list is empty ends with status complete, the
\* three flags true, retry_count as it was and the barcode in no_coverart.csv.
C8_MatchNoCoverNoTracks ==
    (/\ pc = "export"
     /\ run.meta = "found" /\ run.cover = "unavailable" /\ run.tracks = "empty")
    => LET r == RowOf(barcode_queue, run.barcode)
       IN  /\ r.status = "complete"
           /\ r.metadata_complete /\ r.coverart_complete /\ r.tracks_complete
           /\ r.retry_count = run.retry_count
           /\ r.error_message = NULL
           /\ run.barcode \in existing_barcodes(no_coverart)

C8_Witness ==
    /\ pc = "export"
    /\ run.meta = "found" /\ run.cover = "unavailable" /\ run.tracks = "empty"

\* C9. The step in which the metadata search finds nothing ends the run with
\* status failed, retry_count unchanged, an error message, the three flags
\* false, nothing written to the catalog and no cover-art or track call made.
C9_NotFoundTerminal ==
    [][(run.meta # "not_found" /\ run'.meta = "not_found") =>
          LET r == RowOf(barcode_queue, item.barcode)
              q == RowOf(barcode_queue', item.barcode)
          IN  /\ q.status = "failed"
              /\ q.retry_count = r.retry_count
              /\ q.retry_count = run.retry_count
              /\ q.error_message # NULL
              /\ ~q.metadata_complete /\ ~q.coverart_complete /\ ~q.tracks_complete
              /\ q.mbid = NoMbid
              /\ UNCHANGED fileVars
              /\ run'.cover = "none" /\ run'.tracks = "none"
              /\ limiter'.total_requests = limiter.total_requests + 1
              /\ pc' = "export"]_vars

C9_Witness ==
    /\ pc = "export"
    /\ run.meta = "not_found"
    /\ RowOf(barcode_queue, run.barcode).status = "failed"

\* C10. The step in which a metadata search ends in a 503 has given the 503
\* signal to the limiter when the worker's handler has run: current_delay is
\* not lower than before the attempt, strictly greater when it was below
\* max_delay, and, when the limiter's latest signal before it was the previous
\* failing attempt of the same item, not lower than after that attempt.
C10_BackoffAcrossAttempts ==
    [][(run.meta # "unavailable" /\ run'.meta = "unavailable") =>
          /\ limiter'.consecutive_failures = limiter.consecutive_failures + 1
          /\ limiter'.failed_requests = limiter.failed_requests + 1
          /\ limiter'.current_delay >= limiter.current_delay
          /\ limiter.current_delay < max_delay =>
                limiter'.current_delay > limiter.current_delay
          /\ last503.barcode = item.barcode =>
                /\ limiter.current_delay >= last503.delay
                /\ limiter'.current_delay >= last503.delay
          /\ RowOf(barcode_queue', item.barcode).retry_count = run.retry_count + 1]_vars

C10_Witness ==
    /\ pc = "export"
    /\ run.meta = "unavailable"
    /\ runs503[run.barcode] = 3
    /\ last503.barcode = run.barcode
    /\ last503.delay > min_delay

\* C12. Every id on a line that a clearing of the mailbox removes is among the
\* ids the drain that clears it has read: no submitted id leaves the mailbox
\* without having been returned by a drain.
C12_NoLostSubmission ==
    [][(pending_file # <<>> /\ pending_file' = <<>>) =>
          \A i \in DOMAIN pending_file :
              \E j \in 1..read_lines : pending_file[j] = pending_file[i]]_vars

\* C13. Whatever the outcome of the track-listing step, the step ends with
\* tracks_complete true and status complete, retry_count as it was.
C13_TracksNeverFail ==
    [][(pc = "tracks" /\ pc' # "tracks") =>
          LET r == RowOf(barcode_queue, item.barcode)
              q == RowOf(barcode_queue', item.barcode)
          IN  /\ q.tracks_complete
              /\ q.status = "complete"
              /\ q.retry_count = r.retry_count]_vars

\* C14. Whatever the outcome of the cover-art step (skipped, file present,
\* fetched, unavailable or failed, no MBID), the step ends with
\* coverart_complete true, the status still processing and retry_count as it
\* was, and the run goes on to the track-listing step.
C14_CoverartNeverFails ==
    [][(pc = "coverart" /\ pc' # "coverart") =>
          LET r == RowOf(barcode_queue, item.barcode)
              q == RowOf(barcode_queue', item.barcode)
          IN  /\ q.coverart_complete
              /\ r.status = "processing" /\ q.status = "processing"
              /\ q.retry_count = r.retry_count
              /\ q.error_message = r.error_message
              /\ pc' = "tracks"]_vars

C14_Witness ==
    /\ pc = "tracks"
    /\ run.cover = "unavailable"
    /\ run.barcode \in existing_barcodes(no_coverart)
    /\ RowOf(barcode_queue, run.barcode).coverart_complete

\* C17. Under any order of calls of the store's methods, retry_count of a row
\* is lowered only in a step that takes a failed row to pending with
\* retry_count 0 and no error message (reset_failed_barcode) and that leaves
\* every other row as it was.
C17_RetryCountMonotonic ==
    [][\A i \in DOMAIN barcode_queue :
          barcode_queue'[i].retry_count < barcode_queue[i].retry_count =>
              /\ barcode_queue[i].status = "failed"
              /\ barcode_queue'[i] =
                    [barcode_queue[i] EXCEPT !.status = "pending",
                                             !.retry_count = 0,
                                             !.error_message = NULL]
              /\ Len(barcode_queue') = Len(barcode_queue)
              /\ \A j \in DOMAIN barcode_queue :
                    j # i => barcode_queue'[j] = barcode_queue[j]]_vars

C17_Witness ==
    /\ \E i \in DOMAIN barcode_queue :
          /\ barcode_queue[i].retry_count = MaxIncrements
          /\ barcode_queue[i].status = "failed"
    /\ \E j \in DOMAIN barcode_queue :
          /\ barcode_queue[j].retry_count = 0
          /\ barcode_queue[j].status = "pending"
          /\ barcode_queue[j].metadata_complete
          /\ ~barcode_queue[j].tracks_complete

\* C20. The snapshot documents (catalog list, queue-status map, ledger cache)
\* change only in the worker's export step.
C20_SnapshotsWorkerOnly ==
    [][snapshotVars' # snapshotVars => (pc = "export" /\ pc' = "loop")]_vars

\* ------------------------------------------------ start and stop of the worker
\* Any caller may call start(), stop(), start_worker() and stop_worker() in any
\* order; the threads run _worker_loop.
wFrame == UNCHANGED <<storeVars, pending_file, fileVars, snapshotVars, limiter,
                      workerVars, ghostVars, read_lines, clock, boots, wire, retried, last_heartbeat, snapshot_io, picks, scan_metadata>>

\* worker.start() on an existing object
WStart(o) ==
    /\ Len(worker.loops) < MaxThreads
    /\ worker' = start(worker, o)
    /\ wFrame

\* worker.stop() on an existing object
WStop(o, joined) ==
    /\ worker' = stop(worker, o, joined)
    /\ wFrame

\* start_worker(): get_worker() creates the global object when there is none
WStartWorker ==
    /\ Len(worker.loops) < MaxThreads
    /\ IF worker.instance = 0
       THEN /\ Len(worker.objs) < MaxWorkers
            /\ worker' = start([worker EXCEPT !.instance = Len(worker.objs) + 1,
                                              !.objs = Append(@, NewWorker)],
                               Len(worker.objs) + 1)
       ELSE worker' = start(worker, worker.instance)
    /\ wFrame

\* stop_worker(): stops the global object and forgets it
WStopWorker(joined) ==
    /\ worker.instance # 0
    /\ worker' = [stop(worker, worker.instance, joined) EXCEPT !.instance = 0]
    /\ wFrame

\* _worker_loop: `while self.is_running and not self.stop_event.is_set()`
WLoopTest(t) ==
    /\ worker.loops[t].pos = "top"
    /\ LET o == worker.objs[worker.loops[t].obj]
       IN  worker' = [worker EXCEPT !.loops[t].pos =
                         IF o.is_running /\ ~o.stop_event THEN "body" ELSE "exited"]
    /\ wFrame

\* _worker_loop: one iteration (drain, next pending item, its run, export)
WLoopBody(t) ==
    /\ worker.loops[t].pos = "body"
    /\ worker' = [worker EXCEPT !.loops[t].pos = "top"]
    /\ wFrame

NextW ==
    \/ \E o \in DOMAIN worker.objs : WStart(o)
    \/ \E o \in DOMAIN worker.objs, joined \in BOOLEAN : WStop(o, joined)
    \/ WStartWorker
    \/ \E joined \in BOOLEAN : WStopWorker(joined)
    \/ \E t \in DOMAIN worker.loops : WLoopTest(t)
    \/ \E t \in DOMAIN worker.loops : WLoopBody(t)

SpecW == Init /\ [][NextW]_vars

\* C18. At most one thread is inside an iteration of the worker loop (and so
\* at most one thread is executing the loop).
C18_SingleLoopThread ==
    Cardinality({t \in DOMAIN worker.loops : worker.loops[t].pos = "body"}) <= 1

\* ------------------------------------------------ the process ends and restarts
\* The worker thread is a daemon thread: when the process ends (after the
\* bounded join of shutdown, or killed) the thread ends wherever it is. The next
\* process constructs a new BackgroundWorker: its locals are fresh, the limiter
\* loads its persisted row, the store and the files are as they were left.
KillProcess ==
    /\ boots < MaxBoots
    /\ pc' = "loop"
    /\ item' = NoItem
    /\ pending_barcodes' = <<>>
    /\ last_cache_update' = 0
    /\ add_result' = NoAdd
    /\ run' = NoRun
    /\ read_lines' = 0
    /\ limiter' = load_state(limiter)
    /\ boots' = boots + 1
    /\ UNCHANGED <<storeVars, pending_file, fileVars, snapshotVars, ghostVars,
                   clock, worker, wire, retried, last_heartbeat, snapshot_io, picks, scan_metadata>>

NextP ==
    \/ \E b \in Barcodes : ScanBarcode(b)
    \/ DrainRead
    \/ DrainOne
    \/ DrainClear
    \/ GetNextPending
    \/ BeginProcessing
    \/ MetadataStep
    \/ CoverartStep
    \/ TracksStep
    \/ Export
    \/ KillProcess

SpecP == Init /\ [][NextP]_vars

\* C19. At most one row of barcode_queue has status processing.
C19_OneProcessing ==
    Cardinality({i \in DOMAIN barcode_queue : barcode_queue[i].status = "processing"}) <= 1

\* ------------------------------------------------ the retry route, with a fair worker
\* The routes of app.py submit and retry barcodes; the worker thread keeps
\* running its loop. Nothing in the repository calls reset_failed_barcode.
WorkerStep ==
    \/ DrainRead
    \/ DrainOne
    \/ DrainClear
    \/ GetNextPending
    \/ BeginProcessing
    \/ MetadataStep
    \/ CoverartStep
    \/ TracksStep
    \/ Export

\* app.py retry_barcode, called for a barcode whose row is failed
RetryFailed(b) ==
    /\ Len(pending_file) - read_lines < MaxMailbox
    /\ HasBarcode(barcode_queue, b)
    /\ RowOf(barcode_queue, b).status = "failed"
    /\ pending_file' = Append(pending_file, b)
    /\ scan_metadata' = TRUE                   \* record_scan_activity
    /\ retried' = retried \cup {b}
    /\ UNCHANGED <<read_lines, clock, boots, worker, wire, last_heartbeat, snapshot_io, picks, storeVars,
                   fileVars, snapshotVars, limiter, workerVars, ghostVars>>

NextL ==
    \/ \E b \in Barcodes : ScanBarcode(b)
    \/ \E b \in Barcodes : RetryFailed(b)
    \/ DrainRead
    \/ DrainOne
    \/ DrainClear
    \/ GetNextPending
    \/ BeginProcessing
    \/ MetadataStep
    \/ CoverartStep
    \/ TracksStep
    \/ Export

SpecL == Init /\ [][NextL]_vars /\ WF_vars(WorkerStep)

\* the row of b is pending again with a full retry budget and no error
IsReset(b) ==
    /\ HasBarcode(barcode_queue, b)
    /\ RowOf(barcode_queue, b).status = "pending"
    /\ RowOf(barcode_queue, b).retry_count = 0
    /\ RowOf(barcode_queue, b).error_message = NULL

\* C16. A retry of a failed item leads to the item being pending with
\* retry_count 0 and its error message cleared.
C16_RetryResets == \A b \in Barcodes : (b \in retried) ~> IsReset(b)

\* ------------------------------------------------ the client and the wire
\* The worker thread calls lookup_by_barcode and get_track_names of
\* RateLimitedMusicBrainz; the threads of the web server call get_tracks. A
\* response arrives some time after its request.
Durations == {0, 100}

cFrame == UNCHANGED <<storeVars, pending_file, fileVars, snapshotVars, workerVars,
                      ghostVars, read_lines, boots, worker, retried, last_heartbeat, snapshot_io, picks, scan_metadata>>

\* lookup_by_barcode / get_track_names: wait_if_needed, then the first request
ClientCall(op) ==
    /\ wire.pos = "idle"
    /\ limiter.total_requests < MaxSignals
    /\ LET t == wait_if_needed(limiter, wire.last_request_time, clock)
       IN  /\ t <= MaxWireClock
           /\ clock' = t
           /\ wire' = [send_request(wire, t, TRUE, limiter.current_delay)
                          EXCEPT !.pos = op, !.last_request_time = t]
    /\ UNCHANGED limiter
    /\ cFrame

\* lookup_by_barcode: the answer to search_releases; with a release in the
\* list, get_release_by_id is requested next
SearchAnswer(d, outcome) ==
    /\ wire.pos = "search_releases"
    /\ clock + d <= MaxWireClock
    /\ clock' = clock + d
    /\ CASE outcome = "found" ->
              /\ wire' = [send_request(wire, clock', FALSE, limiter.current_delay)
                             EXCEPT !.pos = "get_release_by_id"]
              /\ UNCHANGED limiter
         [] outcome = "none" ->
              /\ wire' = [wire EXCEPT !.pos = "idle"]
              /\ limiter' = client_result(limiter)
         [] outcome = "503" ->
              /\ wire' = [wire EXCEPT !.pos = "idle"]
              /\ limiter' = client_503(limiter)
         [] OTHER ->
              /\ wire' = [wire EXCEPT !.pos = "idle"]
              /\ limiter' = client_error(limiter)
    /\ cFrame

\* the answer to get_release_by_id, of lookup_by_barcode or of get_track_names
ReleaseAnswer(d, outcome) ==
    /\ wire.pos \in {"get_release_by_id", "get_track_names"}
    /\ clock + d <= MaxWireClock
    /\ clock' = clock + d
    /\ wire' = [wire EXCEPT !.pos = "idle"]
    /\ limiter' = CASE outcome = "found" -> client_result(limiter)
                    [] outcome = "503" -> client_503(limiter)
                    [] OTHER -> client_error(limiter)
    /\ cFrame

\* app.py get_tracks on a thread of the web server: get_track_names of
\* musicbrainz_barcode_lookup requests the release without any limiter
FlaskGetTracks ==
    /\ wire' = send_request(wire, clock, FALSE, limiter.current_delay)
    /\ UNCHANGED <<clock, limiter>>
    /\ cFrame

\* time passes between two operations of the client
Elapse(d) ==
    /\ wire.pos = "idle"
    /\ d > 0
    /\ clock + d <= MaxWireClock
    /\ clock' = clock + d
    /\ UNCHANGED <<wire, limiter>>
    /\ cFrame

NextC ==
    \/ \E op \in {"search_releases", "get_track_names"} : ClientCall(op)
    \/ \E d \in Durations, outcome \in {"found", "none", "503", "error"} :
          SearchAnswer(d, outcome)
    \/ \E d \in Durations, outcome \in {"found", "503", "error"} : ReleaseAnswer(d, outcome)
    \/ FlaskGetTracks
    \/ \E d \in Durations : Elapse(d)

SpecC == Init /\ [][NextC]_vars

\* C15. Every outbound request made so far came after a wait_if_needed of its
\* own, and at least current_delay after the request before it.
C15_EveryRequestWaits == wire.own_wait /\ wire.gap_ok

\* ------------------------------------------------ the worker loop in time
\* The worker loop with the time its steps take: the waits of the limiter, the
\* time a request takes, the sleeps of the handlers and of the idle loop. SpecT
\* follows the store, the mailbox, the snapshots and the clock; the catalog,
\* cover-art and tracks files are left as they are.
pickFrame == UNCHANGED <<now, fileVars, pending_barcodes, add_result, run, ghostVars,
                         read_lines, boots, worker, retried, last_heartbeat, snapshot_io,
                         scan_metadata>>
tFrame == pickFrame /\ UNCHANGED picks

RECURSIVE DrainAll(_, _, _)
\* _process_pending_barcodes over the lines s at second ts: the table after the
\* add_barcode calls, and whether all of them returned
DrainAll(t, s, ts) ==
    IF s = <<>> THEN [table |-> t, returned |-> TRUE]
    ELSE LET b == Head(s)
         IN  IF b \in catalog_cache_file \/ b \in queue_status_file
             THEN DrainAll(t, Tail(s), ts)
             ELSE LET r == add_barcode(t, b, ts)
                  IN  IF r.returned THEN DrainAll(r.table, Tail(s), ts)
                      ELSE [table |-> r.table, returned |-> FALSE]

\* _update_shared_data_if_needed
ExportIfNeeded ==
    IF clock - last_cache_update >= cache_update_interval
    THEN /\ catalog_cache_file' = catalog
         /\ queue_status_file' = {b \in Barcodes : HasBarcode(barcode_queue, b)}
         /\ no_coverart_cache_file' = no_coverart
         /\ last_cache_update' = clock
    ELSE UNCHANGED <<snapshotVars, last_cache_update>>

\* time.sleep(self.retry_delay * (retry_count + 1)) of the 503 handler
retry_sleep_503(it) ==
    IF it.retry_count + 1 >= max_retries THEN 0 ELSE retry_delay * (it.retry_count + 1)

\* time.sleep(self.retry_delay) of the MusicBrainzError handler
retry_sleep_error(it) ==
    IF it.retry_count + 1 >= max_retries THEN 0 ELSE retry_delay

\* _send_heartbeat: writes the heartbeat file when heartbeat_interval has passed
\* since the last one it wrote
send_heartbeat(hb, t) == IF t - hb >= heartbeat_interval THEN t ELSE hb

\* _send_heartbeat, then _process_pending_barcodes
TDrain ==
    /\ pc = "loop"
    /\ last_heartbeat' = send_heartbeat(last_heartbeat, clock)
    /\ LET r == DrainAll(barcode_queue, Unique(pending_file, {}), clock \div 100)
       IN  /\ barcode_queue' = r.table
           /\ pending_file' = IF r.returned THEN <<>> ELSE pending_file
           /\ pc' = IF r.returned THEN "dequeue" ELSE "deadlock"
    /\ UNCHANGED <<snapshotVars, limiter, item, last_cache_update, clock, wire>>
    /\ UNCHANGED <<now, fileVars, pending_barcodes, add_result, run, ghostVars,
                   read_lines, boots, worker, retried, snapshot_io, picks, scan_metadata>>

\* no pending item: export if needed, then time.sleep(self.worker_sleep)
TIdle ==
    /\ pc = "dequeue"
    /\ get_next_pending(barcode_queue) = {}
    /\ clock + worker_sleep <= MaxClock
    /\ ExportIfNeeded
    /\ clock' = clock + worker_sleep
    /\ pc' = "loop"
    /\ UNCHANGED <<barcode_queue, pending_file, limiter, item, wire>>
    /\ tFrame

\* get_next_pending, then "Mark as processing"
TPick ==
    /\ pc = "dequeue"
    /\ \E i \in get_next_pending(barcode_queue) :
          /\ item' = barcode_queue[i]
          /\ barcode_queue' = update_status(barcode_queue, barcode_queue[i].barcode,
                                            "processing", NULL)
          /\ picks' = [picks EXCEPT ![barcode_queue[i].barcode] = @ + 1]
    /\ pc' = "metadata"
    /\ UNCHANGED <<pending_file, snapshotVars, limiter, last_cache_update, clock, wire>>
    /\ pickFrame

\* Step 1: the answer arrives d after the request that follows wait_if_needed
TMetadata(d, outcome) ==
    /\ pc = "metadata"
    /\ IF item.metadata_complete
       THEN /\ item' = get_barcode_status(barcode_queue, item.barcode)
            /\ pc' = "coverart"
            /\ UNCHANGED <<barcode_queue, limiter, clock, wire>>
       ELSE LET t == wait_if_needed(limiter, wire.last_request_time, clock)
                b == item.barcode
            IN  /\ limiter.total_requests < MaxRequests
                /\ wire' = [wire EXCEPT !.last_request_time = t]
                /\ CASE outcome = "found" ->
                          /\ limiter' = client_result(limiter)
                          /\ barcode_queue' = mark_processing_step_complete(
                                                  barcode_queue, b, "metadata", b)
                          /\ item' = get_barcode_status(barcode_queue', b)
                          /\ clock' = t + d
                          /\ pc' = "coverart"
                     [] outcome = "none" ->
                          /\ limiter' = client_result(limiter)
                          /\ barcode_queue' = metadata_not_found(barcode_queue, b)
                          /\ clock' = t + d
                          /\ pc' = "export"
                          /\ UNCHANGED item
                     [] outcome = "503" ->
                          /\ limiter' = client_503(limiter)
                          /\ barcode_queue' = handle_ServiceUnavailableError(barcode_queue, item)
                          /\ clock' = t + d + retry_sleep_503(item)
                          /\ pc' = "export"
                          /\ UNCHANGED item
                     [] OTHER ->
                          /\ limiter' = client_error(limiter)
                          /\ barcode_queue' = handle_MusicBrainzError(barcode_queue, item)
                          /\ clock' = t + d + retry_sleep_error(item)
                          /\ pc' = "export"
                          /\ UNCHANGED item
    /\ clock' <= MaxClock
    /\ UNCHANGED <<pending_file, snapshotVars, last_cache_update>>
    /\ tFrame

\* Step 2: the download takes d; every outcome marks the step complete
TCoverart(d) ==
    /\ pc = "coverart"
    /\ IF item.coverart_complete
       THEN UNCHANGED <<barcode_queue, clock>>
       ELSE /\ barcode_queue' = mark_processing_step_complete(
                                    barcode_queue, item.barcode, "coverart", NoMbid)
            /\ clock' = clock + d
    /\ clock' <= MaxClock
    /\ item' = get_barcode_status(barcode_queue', item.barcode)
    /\ pc' = "tracks"
    /\ UNCHANGED <<pending_file, snapshotVars, limiter, last_cache_update, wire>>
    /\ tFrame

\* Step 3, then "Mark as complete"
TTracks(d, outcome) ==
    /\ pc = "tracks"
    /\ IF item.tracks_complete
       THEN /\ barcode_queue' = update_status(barcode_queue, item.barcode, "complete", NULL)
            /\ UNCHANGED <<limiter, clock, wire>>
       ELSE LET t == wait_if_needed(limiter, wire.last_request_time, clock)
            IN  /\ limiter.total_requests < MaxRequests
                /\ wire' = [wire EXCEPT !.last_request_time = t]
                /\ CASE outcome = "found" ->
                          /\ limiter' = client_result(limiter)
                          /\ barcode_queue' = FinishRun(barcode_queue, item.barcode)
                          /\ clock' = t + d
                     [] outcome = "503" ->
                          /\ limiter' = client_503(limiter)
                          /\ barcode_queue' = handle_ServiceUnavailableError(barcode_queue, item)
                          /\ clock' = t + d + retry_sleep_503(item)
                     [] OTHER ->
                          /\ limiter' = client_error(limiter)
                          /\ barcode_queue' = handle_MusicBrainzError(barcode_queue, item)
                          /\ clock' = t + d + retry_sleep_error(item)
    /\ clock' <= MaxClock
    /\ pc' = "export"
    /\ UNCHANGED <<pending_file, snapshotVars, item, last_cache_update>>
    /\ tFrame

\* _update_shared_data_if_needed after the item
TExport ==
    /\ pc = "export"
    /\ ExportIfNeeded
    /\ pc' = "loop"
    /\ item' = NoItem
    /\ UNCHANGED <<barcode_queue, pending_file, limiter, clock, wire>>
    /\ tFrame

NextT ==
    \/ \E b \in Barcodes : ScanBarcode(b)
    \/ TDrain
    \/ TIdle
    \/ TPick
    \/ \E d \in Durations, outcome \in {"found", "none", "503", "error"} : TMetadata(d, outcome)
    \/ \E d \in {0, coverart_timeout} : TCoverart(d)
    \/ \E d \in Durations, outcome \in {"found", "503", "error"} : TTracks(d, outcome)
    \/ TExport

SpecT == Init /\ [][NextT]_vars

\* C11. Once the snapshots have been written, a row of the store that the
\* queue-status snapshot does not hold was inserted at most 2 x
\* cache_update_interval ago (created_at has a resolution of one second).
C11_SnapshotFresh ==
    last_cache_update # 0 =>
        \A i \in DOMAIN barcode_queue :
            barcode_queue[i].barcode \notin queue_status_file =>
                clock - 100 * barcode_queue[i].created_at <= 2 * cache_update_interval + 100

\* C21. After any signals, a limiter constructed by a restart (load_state over
\* the persisted row) has the current_delay the old limiter held.
C21_RestartResumes == load_state(limiter).current_delay = limiter.current_delay

\* a restart has resumed at a learned delay: no success and no reset can have
\* cleared consecutive_failures while the delay is above min_delay
C21_Witness ==
    /\ limiter.current_delay > min_delay
    /\ limiter.current_delay < max_delay
    /\ limiter.consecutive_failures = 0
    /\ limiter.failed_requests > 0
    /\ limiter.total_requests = limiter.failed_requests

\* C22. When a turn of the drain calls add_barcode for an id (the id is in
\* neither snapshot), the id is neither in the catalog nor in the store.
C22_InsertOnlyAbsent ==
    [][(/\ pc = "drain"
        /\ pending_barcodes # <<>>
        /\ pending_barcodes' = Tail(pending_barcodes)
        /\ Head(pending_barcodes) \notin catalog_cache_file
        /\ Head(pending_barcodes) \notin queue_status_file)
       => (/\ Head(pending_barcodes) \notin catalog
           /\ ~HasBarcode(barcode_queue, Head(pending_barcodes)))]_vars

\* C23. For every row, coverart_complete implies metadata_complete and
\* tracks_complete implies coverart_complete.
C23_StepOrder ==
    \A i \in DOMAIN barcode_queue :
        /\ barcode_queue[i].coverart_complete => barcode_queue[i].metadata_complete
        /\ barcode_queue[i].tracks_complete => barcode_queue[i].coverart_complete

\* a row that took more than one run to get its three flags
C23_Witness ==
    \E i \in DOMAIN barcode_queue :
        /\ barcode_queue[i].tracks_complete
        /\ barcode_queue[i].coverart_complete
        /\ barcode_queue[i].metadata_complete
        /\ barcode_queue[i].retry_count > 0

\* C24. A row with status complete has its three step flags set and holds the
\* MBID of the release the metadata search found.
C24_CompleteIsWhole ==
    \A i \in DOMAIN barcode_queue :
        barcode_queue[i].status = "complete" =>
            /\ barcode_queue[i].metadata_complete
            /\ barcode_queue[i].coverart_complete
            /\ barcode_queue[i].tracks_complete
            /\ barcode_queue[i].mbid # NoMbid

\* a complete row whose cover art was not available
C24_Witness ==
    \E i \in DOMAIN barcode_queue :
        /\ barcode_queue[i].status = "complete"
        /\ barcode_queue[i].barcode \in existing_barcodes(no_coverart)

\* C25. A step of a run whose flag is set in the store does nothing: with
\* metadata_complete the metadata step makes no request and writes no catalog
\* record, with coverart_complete the cover-art step fetches and records
\* nothing, with tracks_complete the tracks step makes no request.
C25_SkipsFinishedSteps ==
    [][/\ (/\ pc = "metadata" /\ pc' # "metadata"
           /\ RowOf(barcode_queue, item.barcode).metadata_complete)
          => (/\ run'.meta = "skipped"
              /\ limiter' = limiter
              /\ catalog' = catalog)
       /\ (/\ pc = "coverart" /\ pc' # "coverart"
           /\ RowOf(barcode_queue, item.barcode).coverart_complete)
          => (/\ run'.cover = "skipped"
              /\ coverart_files' = coverart_files
              /\ no_coverart' = no_coverart)
       /\ (/\ pc = "tracks" /\ pc' # "tracks"
           /\ RowOf(barcode_queue, item.barcode).tracks_complete)
          => (/\ run'.tracks = "skipped"
              /\ limiter' = limiter
              /\ tracks_cache' = tracks_cache)]_vars

\* a retried run that skipped the metadata and cover-art steps and fetched
\* the track list
C25_Witness ==
    /\ pc = "export"
    /\ run.meta = "skipped"
    /\ run.cover = "skipped"
    /\ run.tracks = "list"

\* C26 as stated: an unexpected error raised in any step of a run fails the
\* item in that run and leaves retry_count as it was.
C26_UnexpectedAlwaysFails ==
    [][(\/ run.meta # "write_error" /\ run'.meta = "write_error"
        \/ run.cover # "error" /\ run'.cover = "error")
       => (/\ RowOf(barcode_queue', run.barcode).status = "failed"
           /\ RowOf(barcode_queue', run.barcode).retry_count = run.retry_count)]_vars

\* C26, amended. An exception that reaches the generic handler of the run (in
\* the metadata step, outside the client call) sets the row failed with the
\* exception detail in that step and leaves retry_count as it was.
C26_HandlerFails ==
    [][(run.meta # "write_error" /\ run'.meta = "write_error")
       => (/\ RowOf(barcode_queue', run.barcode).status = "failed"
           /\ RowOf(barcode_queue', run.barcode).error_message = "Unexpected error"
           /\ RowOf(barcode_queue', run.barcode).retry_count = run.retry_count
           /\ RowOf(barcode_queue', run.barcode).retry_count
                 = RowOf(barcode_queue, run.barcode).retry_count
           /\ pc' = "export")]_vars

\* the generic handler has run for an item that had used a retry
C26_Witness ==
    /\ pc = "export"
    /\ run.meta = "write_error"
    /\ run.retry_count > 0

\* C27. A run that ends in the MusicBrainzError handler (a classified error
\* other than 503, in the metadata or the tracks step) raises the row's
\* retry_count by exactly one and leaves the row pending with no error message
\* if the new count is below max_retries, failed with the error text otherwise.
\* The count is the one the 503 handler raises too: a run ended by a 503 obeys
\* the same rule on the same counter, so the third retryable error of any kind
\* fails the item.
EndsRetryable(kind) ==
    \/ run.meta # kind /\ run'.meta = kind
    \/ run.tracks # kind /\ run'.tracks = kind

RetryRule(text) ==
    LET r == RowOf(barcode_queue, run.barcode)
        q == RowOf(barcode_queue', run.barcode)
    IN  /\ q.retry_count = r.retry_count + 1
        /\ q.retry_count < max_retries =>
              q.status = "pending" /\ q.error_message = NULL
        /\ q.retry_count >= max_retries =>
              q.status = "failed" /\ q.error_message = text

C27_SharedRetryBudget ==
    [][/\ EndsRetryable("api_error") => RetryRule("MusicBrainz API error")
       /\ EndsRetryable("unavailable") => RetryRule("Max retries exceeded")]_vars

\* the third retryable error is a classified API error, after a 503 that no
\* success has followed
C27_Witness ==
    /\ pc = "export"
    /\ "api_error" \in {run.meta, run.tracks}
    /\ limiter.consecutive_failures > 0
    /\ RowOf(barcode_queue, run.barcode).retry_count = max_retries
    /\ RowOf(barcode_queue, run.barcode).status = "failed"

\* C28. In a run of consecutive on_503_error calls the additional doubling of
\* current_delay (a result above the capped multiplicative growth) is applied
\* only by a call that brings the consecutive-failure count above
\* max_consecutive_failures.
grown_delay(rl) == Min(TimesBackoff(rl.current_delay), max_delay)

C28_DoublingAboveThreshold ==
    [][(/\ limiter'.consecutive_failures = limiter.consecutive_failures + 1
        /\ limiter'.current_delay # grown_delay(limiter))
       => limiter'.consecutive_failures > max_consecutive_failures]_vars

\* C29. on_other_error leaves current_delay, the consecutive-failure count,
\* the persisted backoff and last_503_time unchanged and raises total_requests
\* and failed_requests by one each, in every state the limiter can be in.
C29_OtherErrorStatsOnly ==
    on_other_error(limiter) = [limiter EXCEPT !.total_requests = @ + 1,
                                              !.failed_requests = @ + 1]

\* after an on_other_error call in the middle of a run of 503s: the raised
\* delay, the count of the run and the time of the last 503 are still there,
\* and the two counters are one ahead
C29_Witness ==
    /\ limiter.consecutive_failures = 2
    /\ limiter.current_delay = 247
    /\ limiter.last_503_time = 2
    /\ limiter.failed_requests = 3
    /\ limiter.total_requests = 3

\* C30. In every reachable state a row's error_message is set if and only if
\* its status is failed.
C30_ErrorIffFailed ==
    \A i \in 1..Len(barcode_queue) :
        (barcode_queue[i].error_message # NULL) <=> (barcode_queue[i].status = "failed")

\* the only row failed in its first run without a retry (no release found, or
\* an unexpected error), was reset by the operator, and its second run ended
\* in a retryable error: pending, first retry counted, no message
C30_Witness ==
    /\ Len(barcode_queue) = 1
    /\ limiter.total_requests = 2
    /\ barcode_queue[1].status = "pending"
    /\ barcode_queue[1].retry_count = 1
    /\ ~barcode_queue[1].metadata_complete
    /\ barcode_queue[1].error_message = NULL

\* C31. get_queue_position gives the pending rows distinct ranks 1..n (n the
\* number of pending rows) that follow creation order, rows of equal
\* created_at ranked by insertion order (the row id), and every row that
\* get_next_pending may return has position 1.
C31_PositionIsRank ==
    LET t == barcode_queue
        P == PendingRows(t)
        pos(i) == get_queue_position(t, t[i].barcode)
        before(i, j) == \/ t[i].created_at < t[j].created_at
                        \/ t[i].created_at = t[j].created_at /\ t[i].id < t[j].id
    IN  /\ \A i \in P : pos(i) \in 1..Cardinality(P)
        /\ \A i, j \in P : i # j => pos(i) # pos(j)
        /\ \A i, j \in P : before(i, j) => pos(i) < pos(j)
        /\ \A i \in get_next_pending(t) : pos(i) = 1

\* C32. A cover-art step adds a record to no_coverart.csv only when no image
\* was obtained (the download returned False or raised, or there is no MBID);
\* a step that finds the file or fetches it, or is skipped, leaves the file as
\* it is; and the file never holds two records of one barcode, nor would it
\* after any further append.
NoDuplicate(ledger) ==
    \A i, j \in DOMAIN ledger : ledger[i] = ledger[j] => i = j

loop_continues(w) ==
    LET o == w.objs[w.loops[1].obj]
    IN  o.is_running /\ ~o.stop_event

\* stop() up to the join: is_running = False, stop_event.set()
stop_signal(w, o) ==
    IF ~w.objs[o].is_running THEN w
    ELSE [w EXCEPT !.objs[o].is_running = FALSE, !.objs[o].stop_event = TRUE]

\* an exception in an iteration ends the thread
after_exception_exit == "exited"

\* `except Exception` of _worker_loop: time.sleep(5.0), then the `while` test
after_exception == "loop"

sFrame == UNCHANGED <<storeVars, pending_file, fileVars, snapshotVars, limiter, item,
                      pending_barcodes, last_cache_update, add_result, run, ghostVars,
                      read_lines, clock, boots, wire, retried, last_heartbeat, snapshot_io, picks, scan_metadata>>

\* start_worker() of the process: the object is created and its thread started
SStartWorker ==
    /\ worker.loops = <<>>
    /\ WStartWorker

\* worker.stop(): the flags are set; the join that follows returns when the
\* thread has ended or after 10 s, and changes nothing
SStop ==
    /\ worker.loops # <<>>
    /\ worker.objs[worker.loops[1].obj].is_running
    /\ worker' = stop_signal(worker, worker.loops[1].obj)
    /\ UNCHANGED pc
    /\ sFrame

\* the `while` test, and with it the top of the iteration it admits
SLoopTop ==
    /\ worker.loops # <<>>
    /\ pc = "loop"
    /\ IF loop_continues(worker)
       THEN DrainRead
       ELSE /\ pc' = "exited"
            /\ UNCHANGED worker
            /\ sFrame

\* the rest of an iteration
SLoopBody ==
    /\ worker.loops # <<>>
    /\ \/ DrainOne
       \/ DrainClear
       \/ GetNextPending
       \/ BeginProcessing
       \/ MetadataStep
       \/ CoverartStep
       \/ TracksStep
       \/ Export

\* get_next_pending raises (the database is locked or unreadable): the loop's
\* except takes over
SDequeueRaises ==
    /\ worker.loops # <<>>
    /\ pc = "dequeue"
    /\ pc' = after_exception
    /\ UNCHANGED worker
    /\ sFrame

\* the handling of one barcode of the drain raises: the inner except of
\* _process_pending_barcodes logs it and the for loop goes on
SDrainRaises ==
    /\ worker.loops # <<>>
    /\ pc = "drain"
    /\ pending_barcodes # <<>>
    /\ pending_barcodes' = Tail(pending_barcodes)
    /\ UNCHANGED <<pc, worker, storeVars, pending_file, fileVars, snapshotVars, limiter,
                   item, last_cache_update, add_result, run, ghostVars, read_lines,
                   clock, boots, wire, retried, last_heartbeat, snapshot_io, picks, scan_metadata>>

\* the flush is due and raises: _update_shared_data logs it, and
\* _update_shared_data_if_needed sets last_cache_update all the same
SExportRaises ==
    /\ worker.loops # <<>>
    /\ pc = "export"
    /\ last_cache_update' = 1
    /\ pc' = "loop"
    /\ item' = NoItem
    /\ run' = NoRun
    /\ UNCHANGED <<auxVars, storeVars, pending_file, fileVars, snapshotVars, limiter,
                   pending_barcodes, add_result, ghostVars>>

NextS ==
    \/ \E b \in Barcodes : ScanBarcode(b)
    \/ SStartWorker
    \/ SStop
    \/ SLoopTop
    \/ SLoopBody
    \/ SDrainRaises
    \/ SDequeueRaises
    \/ SExportRaises

SpecS == Init /\ [][NextS]_vars

\* C33. Once stop() has set the stop flag the worker thread starts no new
\* item: no get_next_pending made after the signal is followed by a run.
C33_NoNewItemAfterStop ==
    [][(/\ worker.loops # <<>>
        /\ ~loop_continues(worker)
        /\ pc = "dequeue")
       => pc' # "begin"]_vars

\* C34. The worker loop ends only at its `while` test and only when the stop
\* flag has been set: an exception in the drain, in get_next_pending, in the
\* pipeline or in the flush leaves the thread in the loop, and after an
\* exception of get_next_pending the thread is back at the test.
C34_LoopSurvivesExceptions ==
    [][/\ (pc # "exited" /\ pc' = "exited") =>
             (pc = "loop" /\ ~loop_continues(worker))
       /\ (pc = "dequeue" /\ pc' \notin {"dequeue", "begin", "export"}) =>
             pc' = "loop"]_vars

\* a drain of an iteration that follows one ended by an exception of
\* get_next_pending: a row is in the store and no flush has been made yet
C34_Witness ==
    /\ pc = "drain"
    /\ pending_barcodes # <<>>
    /\ barcode_queue # <<>>
    /\ last_cache_update = 0
    /\ loop_continues(worker)

\* C35. Two heartbeats are at least heartbeat_interval apart, and while the
\* worker thread runs its loop the last_heartbeat that get_worker_stats derives
\* (the heartbeat file's value, which overrides that of the stats file) is
\* less than heartbeat_timeout old at every instant, so the worker is never
\* reported dead.
worker_healthy(hb, t) == hb # 0 /\ t - hb < heartbeat_timeout

C35_NeverReportedDead ==
    [][/\ last_heartbeat' # last_heartbeat =>
             last_heartbeat' - last_heartbeat >= heartbeat_interval
       /\ last_heartbeat' # 0 => worker_healthy(last_heartbeat', clock')]_vars

\* ------------------------------------------------ a snapshot file under write and read
\* The worker's flush rewrites queue_status.json in place: open(path, 'w')
\* truncates the file, json.dump writes the document, the `with` closes it.
\* The web server's threads read the file with open and json.load at any time;
\* no lock and no rename stands between the two. A read made while the file is
\* open for writing finds an empty or partial document, json.load raises
\* JSONDecodeError and _read_json_file returns None.
fFrame == UNCHANGED <<now, pending_file, fileVars, catalog_cache_file,
                      no_coverart_cache_file, limiter, workerVars, ghostVars, read_lines,
                      clock, boots, worker, wire, retried, last_heartbeat, picks, scan_metadata>>

\* _read_json_file: the document, or None (ok = FALSE) while the file is incomplete
read_json_file(file, writing) ==
    IF writing THEN [ok |-> FALSE, doc |-> {}] ELSE [ok |-> TRUE, doc |-> file]

\* get_queue_status(barcode): None without a document, else queue.get(barcode)
get_queue_status(file, writing, b) ==
    LET data == read_json_file(file, writing)
    IN  data.ok /\ b \in data.doc

\* a row enters the store (the worker's drain)
FAddBarcode(b) ==
    /\ ~HasBarcode(barcode_queue, b)
    /\ barcode_queue' = add_barcode(barcode_queue, b, now).table
    /\ UNCHANGED <<queue_status_file, snapshot_io>>
    /\ fFrame

\* update_queue_status -> _write_json_file: open(filepath, 'w')
FWriteOpen ==
    /\ ~snapshot_io.writing
    /\ snapshot_io' = [snapshot_io EXCEPT
                          !.writing = TRUE,
                          !.previous = queue_status_file,
                          !.new = {b \in Barcodes : HasBarcode(barcode_queue, b)}]
    /\ queue_status_file' = {}
    /\ UNCHANGED barcode_queue
    /\ fFrame

\* _write_json_file: json.dump has written the document and the file is closed
FWriteClose ==
    /\ snapshot_io.writing
    /\ queue_status_file' = snapshot_io.new
    /\ snapshot_io' = [snapshot_io EXCEPT !.writing = FALSE]
    /\ UNCHANGED barcode_queue
    /\ fFrame

\* a route calls shared_data.get_queue_status(barcode)
FRead(b) ==
    /\ snapshot_io' = [snapshot_io EXCEPT !.read =
           [barcode |-> b,
            found |-> get_queue_status(queue_status_file, snapshot_io.writing, b),
            in_previous |-> IF snapshot_io.writing THEN b \in snapshot_io.previous
                            ELSE b \in queue_status_file,
            in_new |-> IF snapshot_io.writing THEN b \in snapshot_io.new
                       ELSE b \in queue_status_file]]
    /\ UNCHANGED <<barcode_queue, queue_status_file>>
    /\ fFrame

NextF ==
    \/ \E b \in Barcodes : FAddBarcode(b)
    \/ FWriteOpen
    \/ FWriteClose
    \/ \E b \in Barcodes : FRead(b)

SpecF == Init /\ [][NextF]_vars

\* C36. A lookup of the queue-status document made at any moment of a flush
\* answers from the complete previous or the complete new document: a barcode
\* that is a key of both is found.
C36_ReaderSeesWholeDocument ==
    (/\ snapshot_io.read.barcode # 0
     /\ snapshot_io.read.in_previous
     /\ snapshot_io.read.in_new)
    => snapshot_io.read.found

\* C37. Every call of a method of the store returns: no call is left waiting
\* for the store's lock, in particular not add_barcode of a barcode whose row
\* is pending nor get_barcode_status of a pending row.
C37_StoreCallsReturn == pc # "deadlock"

Settled(b) ==
    /\ HasBarcode(barcode_queue, b)
    /\ RowOf(barcode_queue, b).status \in {"complete", "failed"}

SpecK == Init /\ [][NextP]_vars /\ WF_vars(WorkerStep)

\* the row of b is processing and no running worker holds it: its process died
Orphaned(b) ==
    /\ HasBarcode(barcode_queue, b)
    /\ RowOf(barcode_queue, b).status = "processing"
    /\ item.barcode # b

\* C40. A row left in processing by a process that died is, once the worker
\* runs again, eventually complete or failed (or the requests counted by the
\* model are used up, or the worker is blocked inside add_barcode).
C40_OrphanedItemSettles ==
    \A b \in Barcodes :
        Orphaned(b) ~> (Settled(b) \/ limiter.total_requests = MaxRequests
                                   \/ pc = "deadlock")
====
